---- MODULE Spec2Model ----
(***************************************************************************)
(* TinyLink: the code-assignment and redirect-resolution engine.           *)
(*                                                                         *)
(* The Express handlers GET /, POST /shorten, GET /:code and               *)
(* POST /delete/:code                                                      *)
(* run as concurrent requests.  Every `await db.query(...)` and the        *)
(* `await dnsLookup(...)` is a point at which another request may run, so  *)
(* each one is a step of the request that issues it.  The links table is   *)
(* a sequence of rows in insertion order.  Strings are sequences of        *)
(* one-character strings, so that trimming, prefix tests, the code regex   *)
(* and the decimal suffix are computed and not assumed.                    *)
(***************************************************************************)
EXTENDS Integers, Sequences, FiniteSets, TLC

\* ------------------------------------------------------------------ bounds

\* Number of requests the service receives in one behaviour.
MaxReqs == 3

\* Number of distinct values nano() may return.
NumNano == 1

\* Number of db.query calls that may fail in one behaviour.
MaxFaults == 2

\* ------------------------------------------------------- program constants

\* customAlphabet(..., 6): length of a generated code.
NanoLen == 6

\* for (let i = 0; i < 10; i++): candidates tried before the fallback.
MaxAttempts == 10

\* Math.floor(Math.random() * 1000): exclusive upper end of the suffix.
SuffixRange == 1000

\* /^[A-Za-z0-9]{3,8}$/ : the length window of a custom code.
MinCodeLen == 3
MaxCodeLen == 8

\* ------------------------------------------------------------- characters

Lower ==
  << "a","b","c","d","e","f","g","h","i","j","k","l","m",
     "n","o","p","q","r","s","t","u","v","w","x","y","z" >>

Upper ==
  << "A","B","C","D","E","F","G","H","I","J","K","L","M",
     "N","O","P","Q","R","S","T","U","V","W","X","Y","Z" >>

Digit == << "0","1","2","3","4","5","6","7","8","9" >>

\* The alphabet handed to customAlphabet, in its order.
NanoAlphabet == Lower \o Upper \o Digit

Range(s) == { s[k] : k \in DOMAIN s }

AlnumChars == Range(Lower) \cup Range(Upper) \cup Range(Digit)

\* Characters String.prototype.trim() strips (the ones the inputs use).
WhiteSpace == { " " }

\* ---------------------------------------------------------------- strings

StartsWith(s, p) ==
  /\ Len(s) >= Len(p)
  /\ SubSeq(s, 1, Len(p)) = p

EndsWith(s, p) ==
  /\ Len(s) >= Len(p)
  /\ SubSeq(s, Len(s) - Len(p) + 1, Len(s)) = p

RECURSIVE TrimStart(_)
TrimStart(s) ==
  IF s # << >> /\ Head(s) \in WhiteSpace THEN TrimStart(Tail(s)) ELSE s

RECURSIVE TrimEnd(_)
TrimEnd(s) ==
  IF s # << >> /\ s[Len(s)] \in WhiteSpace
  THEN TrimEnd(SubSeq(s, 1, Len(s) - 1))
  ELSE s

\* String.prototype.trim
Trim(s) == TrimEnd(TrimStart(s))

\* Number.prototype.toString for a non-negative integer (string + number).
RECURSIVE NumberToString(_)
NumberToString(n) ==
  IF n < 10
  THEN << Digit[n + 1] >>
  ELSE NumberToString(n \div 10) \o << Digit[(n % 10) + 1] >>

\* Position of the first character of s that is in set cs, or Len(s) + 1.
RECURSIVE FirstIn(_, _, _)
FirstIn(s, cs, k) ==
  IF k > Len(s) THEN k
  ELSE IF s[k] \in cs THEN k
  ELSE FirstIn(s, cs, k + 1)

\* Position of the last character of s that is in set cs, or 0.
RECURSIVE LastIn(_, _, _)
LastIn(s, cs, k) ==
  IF k = 0 THEN 0
  ELSE IF s[k] \in cs THEN k
  ELSE LastIn(s, cs, k - 1)

\* String.prototype.split on a one-character separator.
RECURSIVE Split(_, _)
Split(s, sep) ==
  LET k == FirstIn(s, {sep}, 1)
  IN  IF k > Len(s)
      THEN << s >>
      ELSE << SubSeq(s, 1, k - 1) >> \o Split(SubSeq(s, k + 1, Len(s)), sep)

\* ------------------------------------------------------------ URL checking

ToLowerChar(c) ==
  IF c \in Range(Upper)
  THEN Lower[CHOOSE k \in DOMAIN Upper : Upper[k] = c]
  ELSE c

ToLower(s) == [k \in DOMAIN s |-> ToLowerChar(s[k])]

RECURSIVE SkipSlashes(_)
SkipSlashes(s) ==
  IF s # << >> /\ Head(s) \in {"/", "\\"} THEN SkipSlashes(Tail(s)) ELSE s

HttpPrefix == << "h","t","t","p",":","/","/" >>
HttpsPrefix == << "h","t","t","p","s",":","/","/" >>

\* new URL(urlString) for the parts isValidUrlResolved reads: whether the
\* parse throws, url.protocol and url.hostname.  The authority ends at the
\* first "/", "\", "?" or "#"; userinfo ends at the last "@"; the port
\* follows the first ":" and must be digits; an http(s) URL needs a host.
ParseURL(s) ==
  LET colon    == FirstIn(s, {":"}, 1)
      scheme   == ToLower(SubSeq(s, 1, colon - 1))
      rest     == SkipSlashes(SubSeq(s, colon + 1, Len(s)))
      authEnd  == FirstIn(rest, {"/", "\\", "?", "#"}, 1)
      auth     == SubSeq(rest, 1, authEnd - 1)
      at       == LastIn(auth, {"@"}, Len(auth))
      hostport == SubSeq(auth, at + 1, Len(auth))
      pcolon   == FirstIn(hostport, {":"}, 1)
      host     == ToLower(SubSeq(hostport, 1, pcolon - 1))
      port     == SubSeq(hostport, pcolon + 1, Len(hostport))
      throws   ==
        \/ colon > Len(s)
        \/ scheme = << >>
        \/ ~(Range(scheme) \subseteq Range(Lower))
        \/ host = << >>
        \/ Range(host) \cap WhiteSpace # {}
        \/ ~(Range(port) \subseteq Range(Digit))
  IN  [ throws   |-> throws,
        protocol |-> scheme \o << ":" >>,
        hostname |-> IF throws THEN << >> ELSE host ]

HostnameChars == AlnumChars \cup {".", "-"}

\* The synchronous checks of isValidUrlResolved, up to the DNS lookup:
\* TRUE iff the function goes on to await dnsLookup(hostname).
UrlSyntaxOk(urlString) ==
  LET url      == ParseURL(urlString)
      hostname == url.hostname
      labels   == Split(hostname, ".")
  IN  /\ ~url.throws
      /\ url.protocol \in { << "h","t","t","p",":" >>,
                            << "h","t","t","p","s",":" >> }
      /\ hostname # << >>
      /\ "." \in Range(hostname)
      /\ ~EndsWith(hostname, << "." >>)
      /\ Range(hostname) \subseteq HostnameChars
      /\ \A k \in DOMAIN labels :
           /\ Len(labels[k]) # 0
           /\ ~StartsWith(labels[k], << "-" >>)
           /\ ~EndsWith(labels[k], << "-" >>)

\* normalized = FullUrl.trim(), with "https://" prepended when it starts
\* with neither "http://" nor "https://".
Normalize(FullUrl) ==
  LET t == Trim(FullUrl)
  IN  IF ~StartsWith(t, HttpPrefix) /\ ~StartsWith(t, HttpsPrefix)
      THEN HttpsPrefix \o t
      ELSE t

\* ------------------------------------------------------------------ codes

\* /^[A-Za-z0-9]{3,8}$/.test(code)
CodeRegexTest(code) ==
  /\ Len(code) >= MinCodeLen
  /\ Len(code) <= MaxCodeLen
  /\ Range(code) \subseteq AlnumChars

\* The values nano() may return here: NanoLen characters of the alphabet
\* (one value per leading character of the alphabet, NumNano of them).
NanoValues ==
  { [k \in 1..NanoLen |-> NanoAlphabet[j]] : j \in 1..NumNano }

\* The values Math.floor(Math.random() * 1000) may return here.
SuffixValues == { n \in {99, 100} : n < SuffixRange }

\* code = customCode && customCode.trim() ? customCode.trim() : null
\* (null is the empty string here: both are falsy in `if (code)`).
PickCustom(customCode) == Trim(customCode)

\* code = nano() + Math.floor(Math.random() * 1000)
FallbackCode(nanoValue, n) == nanoValue \o NumberToString(n)

\* ------------------------------------------------------- the links table

\* Column defaults of the links table for the columns INSERT does not name.
ColumnDefaults(t) ==
  [ total_clicks |-> 0, last_clicked |-> << >>, created_at |-> t,
    deleted |-> FALSE ]

\* An INSERT that names total_clicks and stores 1.
NewRowClicked(code, target_url, t) ==
  [ code |-> code, target_url |-> target_url, total_clicks |-> 1 ]
    @@ ColumnDefaults(t)

\* INSERT INTO links(code, target_url) VALUES ($1, $2): the row added.
NewRow(code, target_url, t) ==
  [ code |-> code, target_url |-> target_url ] @@ ColumnDefaults(t)

\* A links table with no uniqueness constraint on code.
UniqueViolationOff(rows, code) == FALSE

\* The uniqueness constraint on links.code: whether inserting `code` raises
\* unique_violation (SQLSTATE 23505).
UniqueViolation(rows, code) ==
  \E k \in DOMAIN rows : rows[k].code = code

\* The existence check with `AND deleted = false` added.
SelectByCodeLive(rows, code) ==
  Cardinality({ k \in DOMAIN rows : rows[k].code = code /\ ~rows[k].deleted })

\* SELECT 1 FROM links WHERE code = $1 : rowCount.
SelectByCode(rows, code) ==
  Cardinality({ k \in DOMAIN rows : rows[k].code = code })

\* The WHERE clause without `AND deleted = false`.
ClickWhereAny(row, code) == row.code = code

\* WHERE code = $1 AND deleted = false
ClickWhere(row, code) == row.code = code /\ row.deleted = FALSE

\* The counter written from a value read earlier instead of incremented.
ClickSetLost(row, t) ==
  [ row EXCEPT !.total_clicks = 1, !.last_clicked = << t >> ]

\* SET total_clicks = total_clicks + 1, with last_clicked left as it is.
ClickSetNoStamp(row, t) ==
  [ row EXCEPT !.total_clicks = row.total_clicks + 1 ]

\* SET total_clicks = total_clicks + 1, last_clicked = now()
ClickSet(row, t) ==
  [ row EXCEPT !.total_clicks = row.total_clicks + 1,
               !.last_clicked = << t >> ]

\* The UPDATE of GET /:code with `WHERE deleted = false` only.
ClickUpdateAll(rows, code, t) ==
  [ k \in DOMAIN rows |->
      IF rows[k].deleted = FALSE THEN ClickSet(rows[k], t) ELSE rows[k] ]

\* The UPDATE of GET /:code applied to the table.
ClickUpdate(rows, code, t) ==
  [ k \in DOMAIN rows |->
      IF ClickWhere(rows[k], code) THEN ClickSet(rows[k], t) ELSE rows[k] ]

\* RETURNING evaluated over every live row instead of the updated ones.
RECURSIVE ClickReturningAll(_, _)
ClickReturningAll(rows, code) ==
  IF rows = << >> THEN << >>
  ELSE (IF Head(rows).deleted = FALSE
        THEN << Head(rows).target_url >> ELSE << >>)
       \o ClickReturningAll(Tail(rows), code)

\* RETURNING target_url : one entry per updated row, in table order.
RECURSIVE ClickReturning(_, _)
ClickReturning(rows, code) ==
  IF rows = << >> THEN << >>
  ELSE (IF ClickWhere(Head(rows), code)
        THEN << Head(rows).target_url >> ELSE << >>)
       \o ClickReturning(Tail(rows), code)

\* SET deleted = NOT deleted
DeleteSetToggle(row) == [ row EXCEPT !.deleted = ~row.deleted ]

\* SET deleted = true
DeleteSet(row) == [ row EXCEPT !.deleted = TRUE ]

\* The UPDATE without its WHERE clause.
DeleteUpdateAll(rows, code) ==
  [ k \in DOMAIN rows |-> [ rows[k] EXCEPT !.deleted = TRUE ] ]

\* UPDATE links SET deleted = true WHERE code = $1 applied to the table.
DeleteUpdate(rows, code) ==
  [ k \in DOMAIN rows |->
      IF rows[k].code = code THEN DeleteSet(rows[k]) ELSE rows[k] ]

\* The listing query without its WHERE clause.
ListWhereAny(row) == TRUE

\* WHERE deleted = false
ListWhere(row) == row.deleted = FALSE

\* ORDER BY created_at DESC: `row` put in its place in a sequence that is
\* already in that order.
RECURSIVE InsertByCreatedDesc(_, _)
InsertByCreatedDesc(row, sorted) ==
  IF sorted = << >> THEN << row >>
  ELSE IF row.created_at >= Head(sorted).created_at
  THEN << row >> \o sorted
  ELSE << Head(sorted) >> \o InsertByCreatedDesc(row, Tail(sorted))

RECURSIVE OrderByCreatedDesc(_)
OrderByCreatedDesc(rows) ==
  IF rows = << >> THEN << >>
  ELSE InsertByCreatedDesc(Head(rows), OrderByCreatedDesc(Tail(rows)))

\* SELECT code, target_url, total_clicks, last_clicked : the columns of a
\* listed row.
ListColumns(row) ==
  [ code |-> row.code, target_url |-> row.target_url,
    total_clicks |-> row.total_clicks, last_clicked |-> row.last_clicked ]

\* fetchLinks(): the rows of the listing query, in the order it returns them.
fetchLinks(rows) ==
  LET ordered == OrderByCreatedDesc(SelectSeq(rows, ListWhere))
  IN  [ k \in DOMAIN ordered |-> ListColumns(ordered[k]) ]

\* ---------------------------------------------------------------- inputs

\* FullUrl values of the request body: absent/empty, a host and path with
\* no scheme, an http URL with surrounding blanks, a host whose first label
\* starts with "-", and a URL of another scheme.
UrlEmpty == << >>
UrlPlain == << "e",".","c","/","p" >>
UrlHttp  == << " ","h","t","t","p",":","/","/","e",".","c"," " >>
UrlBadHost == << "-","e",".","c" >>
UrlFtp   == << "f","t","p",":","/","/","e",".","c" >>

FullUrls == { UrlEmpty, UrlPlain, UrlHttp, UrlBadHost, UrlFtp }

\* customCode values of the request body: absent/empty, a valid code with
\* a leading blank, and a code that is too short.
CodeNone == << >>
CodeAbc  == << " ","a","b","c" >>
CodeAb   == << "a","b" >>

CustomCodes == { CodeNone, CodeAbc, CodeAb }

\* :code values of GET /:code and POST /delete/:code: the custom code and
\* the first generated code.  Each is unregistered until a shorten request
\* inserts it.
ParamCodes == { Trim(CodeAbc), [k \in 1..NanoLen |-> NanoAlphabet[1]] }

\* ----------------------------------------------------------------- state

Reqs == 1..MaxReqs

VARIABLES
  links,   \* the links table: sequence of rows in insertion order
  now,     \* the database clock behind now()
  faults,  \* number of db.query calls that have failed so far
  req      \* per request: its handler, position, locals and response

vars == << links, now, faults, req >>

\* A request that has not arrived.
NoReq ==
  [ kind |-> "none", pc |-> "idle", normalized |-> << >>,
    customCode |-> << >>, custom |-> FALSE, code |-> << >>, i |-> 0,
    error |-> "", status |-> "", location |-> << >>, listing |-> << >> ]

\* Requests arrive in slot order (a slot is a name, not a priority).
CanArrive(r) ==
  /\ req[r].kind = "none"
  /\ IF r = 1 THEN TRUE ELSE req[r - 1].kind # "none"

Init ==
  /\ links = << >>
  /\ now = 1
  /\ faults = 0
  /\ req = [r \in Reqs |-> NoReq]

\* What a db.query call may do: answer, or (while the fault budget lasts)
\* reject with an error other than a constraint violation.
DbAnswers == IF faults < MaxFaults THEN BOOLEAN ELSE { TRUE }

Answered(dbOk) == faults' = IF dbOk THEN faults ELSE faults + 1

\* const links = await fetchLinks(); return res.render("index", {error}):
\* the handler goes to its last await with the message to render.  Its
\* other locals are not read again.
ToRender(q, msg) ==
  [ q EXCEPT !.pc = "fetchLinks", !.error = msg, !.normalized = << >>,
             !.customCode = << >>, !.i = 0 ]

\* return res.redirect(location)
Redirect(q, location) ==
  [ q EXCEPT !.pc = "done", !.status = "302", !.location = location,
             !.customCode = << >>, !.i = 0 ]

\* return res.status(code).send(...)
Send(q, status) == [ q EXCEPT !.pc = "done", !.status = status ]

\* res.render("index", { links, ... }): the page carries the listing.
Render(q, listing) ==
  [ q EXCEPT !.pc = "done", !.status = "200", !.listing = listing ]

\* The messages the handlers render.
MsgMissingUrl  == "Please provide a URL."
MsgInvalidUrl  == "Invalid or non-resolving URL."
MsgBadCode     == "Custom code must be 3-8 alphanumeric characters"
MsgCodeTaken   == "Custom code already exists"
MsgCheckError  == "Server error checking custom code"
MsgCollided    == "Generated code collided - please try again."
MsgInsertError == "Server error creating short link"
MsgDeleteError == "Server error deleting link"

\* ------------------------------------------------------------ POST /shorten

\* The request arrives; the handler runs to its first await: the listing of
\* an error page, or the DNS lookup inside isValidUrlResolved.
Shorten(r, FullUrl, customCode) ==
  /\ CanArrive(r)
  /\ LET q == [ req[r] EXCEPT !.kind = "shorten" ]
         normalized == Normalize(FullUrl)
     IN  req' = [ req EXCEPT ![r] =
           IF FullUrl = << >>
           THEN ToRender(q, MsgMissingUrl)
           ELSE IF ~UrlSyntaxOk(normalized)
           THEN ToRender(q, MsgInvalidUrl)
           ELSE [ q EXCEPT !.pc = "dnsLookup", !.normalized = normalized,
                           !.customCode = customCode ] ]
  /\ UNCHANGED << links, now, faults >>

\* await dnsLookup(hostname) returns or throws; on success the handler picks
\* the code branch and runs to the next await.
DnsLookup(r) ==
  /\ req[r].pc = "dnsLookup"
  /\ \E resolves \in BOOLEAN :
       LET q    == req[r]
           code == PickCustom(q.customCode)
       IN  req' = [ req EXCEPT ![r] =
             IF ~resolves
             THEN ToRender(q, MsgInvalidUrl)
             ELSE IF code # << >>
             THEN IF ~CodeRegexTest(code)
                  THEN ToRender([ q EXCEPT !.custom = TRUE, !.code = code ],
                                MsgBadCode)
                  ELSE [ q EXCEPT !.pc = "checkCustom", !.custom = TRUE,
                                  !.code = code, !.customCode = << >> ]
             ELSE [ q EXCEPT !.pc = "checkCandidate", !.i = 0,
                             !.customCode = << >> ] ]
  /\ UNCHANGED << links, now, faults >>

\* The existence check of a custom code.
CheckCustom(r) ==
  /\ req[r].pc = "checkCustom"
  /\ \E dbOk \in DbAnswers :
       /\ Answered(dbOk)
       /\ LET q == req[r]
          IN  req' = [ req EXCEPT ![r] =
                IF ~dbOk
                THEN ToRender(q, MsgCheckError)
                ELSE IF SelectByCode(links, q.code) > 0
                THEN ToRender(q, MsgCodeTaken)
                ELSE [ q EXCEPT !.pc = "insert" ] ]
  /\ UNCHANGED << links, now >>

\* A generation loop of one pass: the first candidate that is not free
\* sends the request to the fallback code.
CheckCandidateOnce(r) ==
  /\ req[r].pc = "checkCandidate"
  /\ req[r].i < MaxAttempts
  /\ \E candidate \in NanoValues, dbOk \in DbAnswers,
        last \in NanoValues, n \in SuffixValues :
       /\ Answered(dbOk)
       /\ LET q == req[r]
          IN  req' = [ req EXCEPT ![r] =
                IF dbOk /\ SelectByCode(links, candidate) = 0
                THEN [ q EXCEPT !.pc = "insert", !.code = candidate ]
                ELSE [ q EXCEPT !.pc = "insert", !.i = q.i + 1,
                                !.code = FallbackCode(last, n) ] ]
  /\ UNCHANGED << links, now >>

\* One pass of the generation loop: draw a candidate and check it.  A free
\* candidate becomes the code; a taken one, or a failed query, ends the
\* pass, and the pass that ends the loop without a code takes the fallback.
CheckCandidate(r) ==
  /\ req[r].pc = "checkCandidate"
  /\ req[r].i < MaxAttempts
  /\ \E candidate \in NanoValues, dbOk \in DbAnswers,
        last \in NanoValues, n \in SuffixValues :
       /\ Answered(dbOk)
       /\ LET q == req[r]
          IN  req' = [ req EXCEPT ![r] =
                IF dbOk /\ SelectByCode(links, candidate) = 0
                THEN [ q EXCEPT !.pc = "insert", !.code = candidate ]
                ELSE IF q.i + 1 < MaxAttempts
                THEN [ q EXCEPT !.i = q.i + 1 ]
                ELSE [ q EXCEPT !.pc = "insert", !.i = q.i + 1,
                                !.code = FallbackCode(last, n) ] ]
  /\ UNCHANGED << links, now >>

\* The INSERT inside the generation loop: a generated code refused by the
\* uniqueness constraint sends the request back to draw another one.
InsertRetries(r) ==
  /\ req[r].pc = "insert"
  /\ \E dbOk \in DbAnswers :
       /\ Answered(dbOk)
       /\ LET q == req[r]
          IN  IF ~dbOk
              THEN /\ req' = [ req EXCEPT ![r] = ToRender(q, MsgInsertError) ]
                   /\ UNCHANGED << links, now >>
              ELSE IF UniqueViolation(links, q.code)
              THEN /\ req' = [ req EXCEPT ![r] =
                        IF q.custom
                        THEN ToRender(q, MsgCollided)
                        ELSE [ q EXCEPT !.pc = "checkCandidate", !.i = 0,
                                        !.code = << >> ] ]
                   /\ UNCHANGED << links, now >>
              ELSE /\ links' = Append(links, NewRow(q.code, q.normalized, now))
                   /\ now' = now + 1
                   /\ req' = [ req EXCEPT ![r] = Redirect(q, << "/" >>) ]

\* The INSERT with ON CONFLICT (code) DO UPDATE SET target_url: a stored
\* code is pointed at the new URL.
InsertOverwrites(r) ==
  /\ req[r].pc = "insert"
  /\ \E dbOk \in DbAnswers :
       /\ Answered(dbOk)
       /\ LET q == req[r]
          IN  IF ~dbOk
              THEN /\ req' = [ req EXCEPT ![r] = ToRender(q, MsgInsertError) ]
                   /\ UNCHANGED << links, now >>
              ELSE IF UniqueViolation(links, q.code)
              THEN /\ links' = [ k \in DOMAIN links |->
                        IF links[k].code = q.code
                        THEN [ links[k] EXCEPT !.target_url = q.normalized ]
                        ELSE links[k] ]
                   /\ req' = [ req EXCEPT ![r] = Redirect(q, << "/" >>) ]
                   /\ UNCHANGED now
              ELSE /\ links' = Append(links, NewRow(q.code, q.normalized, now))
                   /\ now' = now + 1
                   /\ req' = [ req EXCEPT ![r] = Redirect(q, << "/" >>) ]

\* The INSERT and its catch clause.
Insert(r) ==
  /\ req[r].pc = "insert"
  /\ \E dbOk \in DbAnswers :
       /\ Answered(dbOk)
       /\ LET q == req[r]
          IN  IF ~dbOk
              THEN /\ req' = [ req EXCEPT ![r] = ToRender(q, MsgInsertError) ]
                   /\ UNCHANGED << links, now >>
              ELSE IF UniqueViolation(links, q.code)
              THEN /\ req' = [ req EXCEPT ![r] = ToRender(q, MsgCollided) ]
                   /\ UNCHANGED << links, now >>
              ELSE /\ links' = Append(links, NewRow(q.code, q.normalized, now))
                   /\ now' = now + 1
                   /\ req' = [ req EXCEPT ![r] = Redirect(q, << "/" >>) ]

\* await fetchLinks() before an error page is rendered.  Outside a try
\* block a failed query rejects the handler's promise: no response is sent.
FetchLinks(r) ==
  /\ req[r].pc = "fetchLinks"
  /\ \E dbOk \in DbAnswers :
       /\ Answered(dbOk)
       /\ req' = [ req EXCEPT ![r] =
            IF dbOk THEN Render(req[r], fetchLinks(links))
            ELSE Send(req[r], "unhandled") ]
  /\ UNCHANGED << links, now >>

\* -------------------------------------------------------------------- GET /

\* The whole handler: it has one await, the listing query, inside a try.
List(r) ==
  /\ CanArrive(r)
  /\ \E dbOk \in DbAnswers :
       /\ Answered(dbOk)
       /\ LET q == [ req[r] EXCEPT !.kind = "list" ]
          IN  req' = [ req EXCEPT ![r] =
                IF dbOk THEN Render(q, fetchLinks(links))
                ELSE Send(q, "500") ]
  /\ UNCHANGED << links, now >>

\* --------------------------------------------------------------- GET /:code

\* The whole handler: it has one await, the UPDATE ... RETURNING.
Resolve(r, code) ==
  /\ CanArrive(r)
  /\ \E dbOk \in DbAnswers :
       /\ Answered(dbOk)
       /\ LET q    == [ req[r] EXCEPT !.kind = "resolve", !.code = code ]
              rows == ClickReturning(links, code)
          IN  IF ~dbOk
              THEN /\ req' = [ req EXCEPT ![r] = Send(q, "500") ]
                   /\ UNCHANGED << links, now >>
              ELSE IF Len(rows) = 0
              THEN /\ req' = [ req EXCEPT ![r] = Send(q, "404") ]
                   /\ UNCHANGED << links, now >>
              ELSE /\ links' = ClickUpdate(links, code, now)
                   /\ now' = now + 1
                   /\ req' = [ req EXCEPT ![r] = Redirect(q, rows[1]) ]

\* ------------------------------------------------------ POST /delete/:code

\* The handler up to the end of its UPDATE; a failed UPDATE leaves the
\* listing of the error page to do.
Delete(r, code) ==
  /\ CanArrive(r)
  /\ \E dbOk \in DbAnswers :
       /\ Answered(dbOk)
       /\ LET q == [ req[r] EXCEPT !.kind = "delete", !.code = code ]
          IN  IF ~dbOk
              THEN /\ req' = [ req EXCEPT ![r] = ToRender(q, MsgDeleteError) ]
                   /\ UNCHANGED links
              ELSE /\ links' = DeleteUpdate(links, code)
                   /\ req' = [ req EXCEPT ![r] = Redirect(q, << "/" >>) ]
  /\ UNCHANGED now

\* ------------------------------------------------------------ specification

Next ==
  \/ \E r \in Reqs, u \in FullUrls, c \in CustomCodes : Shorten(r, u, c)
  \/ \E r \in Reqs : DnsLookup(r)
  \/ \E r \in Reqs : CheckCustom(r)
  \/ \E r \in Reqs : CheckCandidate(r)
  \/ \E r \in Reqs : Insert(r)
  \/ \E r \in Reqs : FetchLinks(r)
  \/ \E r \in Reqs : List(r)
  \/ \E r \in Reqs, c \in ParamCodes : Resolve(r, c)
  \/ \E r \in Reqs, c \in ParamCodes : Delete(r, c)

Spec == Init /\ [][Next]_vars

\* ------------------------------------------------------------------ claims

RowsWithCode(code) == { k \in DOMAIN links : links[k].code = code }

IsShorten(r) == req[r].kind = "shorten"

Finished(r) == req[r].pc = "done"

\* The request was answered with the redirect that follows a success.
Succeeded(r) == Finished(r) /\ req[r].status = "302"

\* The request ran into a failed db.query call.
HitFault(r) ==
  \/ req[r].error \in { MsgCheckError, MsgInsertError, MsgDeleteError }
  \/ req[r].status \in { "500", "unhandled" }

\* The request is a shorten request that has executed its INSERT statement.
PastInsert(r) ==
  /\ IsShorten(r)
  /\ req[r].code # << >>
  /\ \/ Succeeded(r)
     \/ req[r].error \in { MsgCollided, MsgInsertError }

\* C1: in every reachable state the links table holds at most one row per
\* code value, soft-deleted rows counted as well as live ones.
C1_OneRowPerCode ==
  \A j, k \in DOMAIN links : links[j].code = links[k].code => j = k

\* An INSERT of a stored code has been refused, and the one row of that
\* code has been resolved since.
C1_Witness ==
  \E k \in DOMAIN links, r \in Reqs :
    /\ IsShorten(r)
    /\ req[r].code = links[k].code
    /\ req[r].error = MsgCollided
    /\ links[k].total_clicks >= 1

\* C2: of two shorten requests with the same valid custom code that both
\* ran to their end with the store answering every query, and with no third
\* request having registered the code, exactly one succeeds, the other
\* fails with "Custom code already exists", and one row holds the code.
C2_CustomRaceCodeTaken ==
  \A r, s \in Reqs :
    ( /\ r # s
      /\ IsShorten(r) /\ IsShorten(s)
      /\ req[r].custom /\ req[s].custom
      /\ req[r].code = req[s].code
      /\ CodeRegexTest(req[r].code)
      /\ Finished(r) /\ Finished(s)
      /\ ~HitFault(r) /\ ~HitFault(s)
      /\ \A t \in Reqs \ {r, s} :
           ~(IsShorten(t) /\ req[t].code = req[r].code) )
    => /\ Cardinality(RowsWithCode(req[r].code)) = 1
       /\ \/ Succeeded(r) /\ req[s].error = MsgCodeTaken
          \/ Succeeded(s) /\ req[r].error = MsgCodeTaken

\* C3: the total_clicks of every row equals the number of resolve requests
\* for its code that were answered with the redirect, whatever the order in
\* which those requests and the shorten requests ran.
C3_ClicksCounted ==
  \A k \in DOMAIN links :
    links[k].total_clicks =
      Cardinality({ r \in Reqs : /\ req[r].kind = "resolve"
                                 /\ req[r].code = links[k].code
                                 /\ Succeeded(r) })

\* Two resolve requests of one code succeeded.
C3_Witness ==
  \E k \in DOMAIN links : links[k].total_clicks >= 2

C4_LoserStep ==
  \A r \in Reqs :
    ( /\ IsShorten(r) /\ ~req[r].custom
      /\ req[r].pc = "insert"
      /\ req'[r] # req[r]
      /\ RowsWithCode(req[r].code) # {} )
    => /\ links' = links
       /\ req'[r].pc = "fetchLinks"
       /\ req'[r].code = req[r].code
       /\ req'[r].error \in { MsgCollided, MsgInsertError }

C4_Outcome ==
  \A r \in Reqs :
    (PastInsert(r) /\ ~req[r].custom /\ req[r].error # MsgInsertError)
    => /\ Cardinality(RowsWithCode(req[r].code)) = 1
       /\ \/ /\ Succeeded(r)
             /\ \A s \in Reqs \ {r} :
                  (PastInsert(s) /\ req[s].code = req[r].code)
                  => ~Succeeded(s)
          \/ /\ req[r].error = MsgCollided
             /\ \E s \in Reqs \ {r} :
                  /\ PastInsert(s) /\ req[s].code = req[r].code
                  /\ Succeeded(s)

C5_ResolveStep ==
  \A r \in Reqs :
    ( /\ req[r].kind = "none"
      /\ req'[r].kind = "resolve"
      /\ \A k \in RowsWithCode(req'[r].code) : links[k].deleted )
    => /\ links' = links
       /\ req'[r].location = << >>
       /\ req'[r].error = ""
       /\ req'[r].status \in { "404", "500" }
       /\ (faults' = faults) => req'[r].status = "404"

\* C5: every step of the service satisfies C5_ResolveStep.
C5_DeletedOpaque == [][C5_ResolveStep]_vars

\* A resolve request for a soft-deleted code was answered 404.
C5_Witness ==
  \E r \in Reqs, k \in DOMAIN links :
    /\ req[r].kind = "resolve"
    /\ req[r].status = "404"
    /\ links[k].code = req[r].code
    /\ links[k].deleted

\* C6: when the existence check of a custom code runs while a row, live or
\* soft-deleted, holds that code, the request inserts nothing and goes on to
\* render "Custom code already exists" (the check error when the query
\* fails); it never reaches the INSERT.
C6_CheckStep ==
  \A r \in Reqs :
    ( /\ req[r].pc = "checkCustom"
      /\ req'[r] # req[r]
      /\ RowsWithCode(req[r].code) # {} )
    => /\ links' = links
       /\ req'[r].pc = "fetchLinks"
       /\ req'[r].error \in { MsgCodeTaken, MsgCheckError }
       /\ (faults' = faults) => req'[r].error = MsgCodeTaken

\* C6: every step of the service satisfies C6_CheckStep.
C6_TakenCodeRefused == [][C6_CheckStep]_vars

\* A custom code was refused as taken while its only row is soft-deleted.
C6_Witness ==
  \E r \in Reqs, k \in DOMAIN links :
    /\ IsShorten(r) /\ req[r].custom
    /\ Finished(r) /\ req[r].error = MsgCodeTaken
    /\ links[k].code = req[r].code
    /\ links[k].deleted

\* C7: a row with deleted = true keeps its place, its code and
\* deleted = true in the next state, whatever request takes the step.
C7_DeletedStep ==
  \A k \in DOMAIN links :
    links[k].deleted =>
      /\ k \in DOMAIN links'
      /\ links'[k].code = links[k].code
      /\ links'[k].deleted

\* C7: every step of the service satisfies C7_DeletedStep.
C7_DeletedStays == [][C7_DeletedStep]_vars

\* A row is deleted, and a shorten request for its code has executed its
\* INSERT and was refused.
C7_Witness ==
  \E k \in DOMAIN links, r, s \in Reqs :
    /\ links[k].deleted
    /\ req[r].kind = "delete" /\ Succeeded(r)
    /\ req[r].code = links[k].code
    /\ IsShorten(s) /\ Finished(s)
    /\ req[s].code = links[k].code
    /\ req[s].error = MsgCollided

\* C8: a delete request whose UPDATE ran leaves a table that a second
\* delete of the same code would not change; it changes nothing when the
\* code has no row or its row is already deleted; and it is answered with
\* the redirect, not an error, in each of these cases.
C8_DeleteStep ==
  \A r \in Reqs :
    ( /\ req[r].kind = "none"
      /\ req'[r].kind = "delete"
      /\ faults' = faults )
    => LET code == req'[r].code
       IN  /\ DeleteUpdate(links', code) = links'
           /\ (\A k \in RowsWithCode(code) : links[k].deleted)
                => links' = links
           /\ \A k \in DOMAIN links :
                links[k].code # code => links'[k] = links[k]
           /\ Succeeded(r)'

\* C8: every step of the service satisfies C8_DeleteStep.
C8_DeleteIdempotent == [][C8_DeleteStep]_vars

\* Two delete requests of the code of a stored row were both answered with
\* the redirect.
C8_Witness ==
  \E k \in DOMAIN links, r, s \in Reqs :
    /\ r # s
    /\ links[k].deleted
    /\ req[r].kind = "delete" /\ req[s].kind = "delete"
    /\ req[r].code = links[k].code /\ req[s].code = links[k].code
    /\ Succeeded(r) /\ Succeeded(s)

\* C9: the code of every stored row matches [A-Za-z0-9]{3,8}.
C9_StoredCodesValid ==
  \A k \in DOMAIN links : CodeRegexTest(links[k].code)

\* C10: every resolve request answered with a redirect carries as location
\* the normalized URL of the shorten request that succeeded with that code.
C10_ResolveRoundTrip ==
  \A r \in Reqs :
    (req[r].kind = "resolve" /\ Succeeded(r))
    => \E s \in Reqs :
         /\ IsShorten(s) /\ Succeeded(s)
         /\ req[s].code = req[r].code
         /\ req[s].normalized = req[r].location
         /\ \E u \in FullUrls : req[r].location = Normalize(u)

\* A code was resolved while rows with two different target URLs exist.
C10_Witness ==
  /\ \E r \in Reqs : req[r].kind = "resolve" /\ Succeeded(r)
  /\ \E j, k \in DOMAIN links : links[j].target_url # links[k].target_url

\* The step in which request r is answered with a rendered page.
Renders(r) ==
  /\ req[r].pc # "done"
  /\ req'[r].pc = "done"
  /\ req'[r].status = "200"

LiveRows == { k \in DOMAIN links : links[k].deleted = FALSE }

\* C11: the listing a page is rendered with holds one entry per row with
\* deleted = false and no other entry, each entry carrying the row's code,
\* target_url, total_clicks and last_clicked, and the entries are in
\* decreasing created_at order.  So a row is in every listing taken from
\* its insertion until its deletion and in none taken after it.
C11_ListStep ==
  \A r \in Reqs :
    Renders(r) =>
      LET listing == req'[r].listing
      IN  /\ Len(listing) = Cardinality(LiveRows)
          /\ \A k \in LiveRows : \E j \in DOMAIN listing :
               /\ listing[j].code = links[k].code
               /\ listing[j].target_url = links[k].target_url
               /\ listing[j].total_clicks = links[k].total_clicks
               /\ listing[j].last_clicked = links[k].last_clicked
          /\ \A i, j \in DOMAIN listing : \A a, b \in DOMAIN links :
               ( /\ i < j
                 /\ listing[i].code = links[a].code
                 /\ listing[j].code = links[b].code )
               => links[a].created_at > links[b].created_at

\* C11: every step of the service satisfies C11_ListStep.
C11_ListLive == [][C11_ListStep]_vars

\* GET / was answered with a listing of two rows, the newer one first.
C11_Witness ==
  \E r \in Reqs :
    /\ req[r].kind = "list"
    /\ Finished(r)
    /\ Len(req[r].listing) = 2
    /\ req[r].listing[1].code = links[2].code
    /\ req[r].listing[2].code = links[1].code

\* The messages that report a failed store operation.
StorageErrors == { MsgCheckError, MsgInsertError, MsgDeleteError }

\* Request r takes a step in which its db.query call fails.
FailsIn(r) ==
  /\ req'[r] # req[r]
  /\ faults' = faults + 1

\* C12: a step of a shorten request in which a store operation fails leaves
\* the table as it is and leaves the request either about to render a
\* storage error or answered with a server-error status; and a shorten
\* request that ran into a failed store operation and has ended was
\* answered (a rendered storage error or a server-error status) and no row
\* was added for it.
C12_FailStep ==
  \A r \in Reqs :
    (IsShorten(r) /\ FailsIn(r))
    => /\ links' = links
       /\ \/ req'[r].pc = "fetchLinks" /\ req'[r].error \in StorageErrors
          \/ req'[r].pc = "done" /\ req'[r].status \in { "500", "503" }

C12_Outcome ==
  \A r \in Reqs :
    (IsShorten(r) /\ Finished(r) /\ HitFault(r))
    => \/ req[r].status = "200" /\ req[r].error \in StorageErrors
       \/ req[r].status \in { "500", "503" }

\* C12: every step keeps C12_FailStep, and C12_Outcome holds after it.
C12_StorageErrorReported == [][C12_FailStep /\ C12_Outcome']_vars

\* The messages of the validation errors MissingUrl, InvalidUrl and
\* BadCodeFormat.
ValidationErrors == { MsgMissingUrl, MsgInvalidUrl, MsgBadCode }

\* The arrival of a shorten request: the empty URL is refused as missing,
\* the URLs whose host breaks the syntax rule as invalid, and the other
\* URLs go on to the DNS lookup.
C13_ArriveStep ==
  \A r \in Reqs, u \in FullUrls, c \in CustomCodes :
    Shorten(r, u, c)
    => /\ links' = links
       /\ (u = UrlEmpty)
            => req'[r].pc = "fetchLinks" /\ req'[r].error = MsgMissingUrl
       /\ (u \in { UrlBadHost, UrlFtp })
            => req'[r].pc = "fetchLinks" /\ req'[r].error = MsgInvalidUrl
       /\ (u \in { UrlPlain, UrlHttp })
            => req'[r].pc = "dnsLookup" /\ req'[r].error = ""

\* The step after the DNS lookup: a request that is refused is refused as
\* invalid (the lookup failed) or for its code; a non-blank custom code
\* outside the pattern never passes; and the code error is given to such
\* codes only.
C13_DnsStep ==
  \A r \in Reqs :
    (req[r].pc = "dnsLookup" /\ req'[r] # req[r])
    => LET code == Trim(req[r].customCode)
           bad  == code # << >> /\ ~CodeRegexTest(code)
       IN  /\ links' = links
           /\ req'[r].pc = "fetchLinks"
                => req'[r].error \in { MsgInvalidUrl, MsgBadCode }
           /\ bad => req'[r].pc = "fetchLinks"
           /\ (req'[r].error = MsgBadCode) => bad

\* No step of a request that is being refused for a validation error
\* changes the table.
C13_Frame ==
  \A r \in Reqs :
    (req'[r] # req[r] /\ req'[r].error \in ValidationErrors)
    => links' = links

\* A request refused for a validation error ends with a response.
C13_Handled ==
  \A r \in Reqs :
    (IsShorten(r) /\ Finished(r) /\ req[r].error \in ValidationErrors)
    => req[r].status \in { "200", "500", "503" }

\* The part of C13 about the table and the error categories.
C13_ValidationSteps == [][C13_ArriveStep /\ C13_DnsStep /\ C13_Frame]_vars

\* C13: a shorten request that fails validation leaves the table unchanged,
\* is refused with the error of its category (missing URL, invalid URL, bad
\* code format), and ends with a response, never as an unhandled fault.
C13_ValidationHandled ==
  [][C13_ArriveStep /\ C13_DnsStep /\ C13_Frame /\ C13_Handled']_vars

\* C14: the step in which a shorten request succeeds appends one row to the
\* table and changes no other row; the row has the request's code and
\* normalized URL, total_clicks = 0, last_clicked null and deleted = false;
\* and the listing query run on the table right after returns that row,
\* with total_clicks = 0 and last_clicked null.
C14_InsertStep ==
  \A r \in Reqs :
    (IsShorten(r) /\ ~Finished(r) /\ Succeeded(r)')
    => LET n == Len(links) + 1
       IN  /\ Len(links') = n
           /\ \A k \in DOMAIN links : links'[k] = links[k]
           /\ links'[n].code = req'[r].code
           /\ links'[n].target_url = req'[r].normalized
           /\ links'[n].total_clicks = 0
           /\ links'[n].last_clicked = << >>
           /\ links'[n].deleted = FALSE
           /\ \E j \in DOMAIN fetchLinks(links') :
                /\ fetchLinks(links')[j].code = req'[r].code
                /\ fetchLinks(links')[j].target_url = req'[r].normalized
                /\ fetchLinks(links')[j].total_clicks = 0
                /\ fetchLinks(links')[j].last_clicked = << >>

\* C14: every step of the service satisfies C14_InsertStep.
C14_FreshRow == [][C14_InsertStep]_vars

\* A shorten request succeeded while another row existed, and a GET / that
\* came after it lists its row first with no clicks.
C14_Witness ==
  \E r, s \in Reqs :
    /\ IsShorten(r) /\ Succeeded(r)
    /\ Len(links) = 2
    /\ links[2].code = req[r].code
    /\ req[s].kind = "list" /\ Finished(s)
    /\ Len(req[s].listing) = 2
    /\ req[s].listing[1].code = req[r].code
    /\ req[s].listing[1].total_clicks = 0

\* The continuation of request r after one of its awaits: the event loop
\* runs it once the awaited query or lookup has settled.
Continue(r) ==
  \/ DnsLookup(r)
  \/ CheckCustom(r)
  \/ CheckCandidate(r)
  \/ Insert(r)
  \/ FetchLinks(r)

\* Every await settles, so no continuation stays pending for ever.
FairSpec == Spec /\ \A r \in Reqs : WF_vars(Continue(r))

\* The handler of every shorten request runs to its end (under FairSpec),
\* and the loop counter never passes MaxAttempts.
C15_HandlerEnds == \A r \in Reqs : IsShorten(r) ~> Finished(r)

C15_LoopBounded == \A r \in Reqs : req[r].i <= MaxAttempts

\* C15: the generation loop of a shorten request makes at most MaxAttempts
\* attempts, and a shorten request that has ended was answered with the
\* redirect of a success or with a rendered error.
C15_EndsAnswered ==
  \A r \in Reqs :
    IsShorten(r) =>
      /\ req[r].i <= MaxAttempts
      /\ Finished(r) =>
           \/ req[r].status = "302"
           \/ req[r].status = "200" /\ req[r].error # ""

\* The step is the arrival of a resolve request for `code` that is answered
\* with the redirect.
ResolvesNow(code) ==
  \E r \in Reqs :
    /\ req[r].kind = "none"
    /\ req'[r].kind = "resolve"
    /\ req'[r].code = code
    /\ Succeeded(r)'

\* C16: in every step the total_clicks of every row stays or grows by
\* exactly 1; it grows only in the step of a resolve request for the row's
\* code that is answered with the redirect, and in such a step it does
\* grow.  Shorten, delete, listing and refused or failed resolve steps leave
\* it as it is.
C16_ClickStep ==
  \A k \in DOMAIN links :
    /\ k \in DOMAIN links'
    /\ \/ links'[k].total_clicks = links[k].total_clicks
       \/ links'[k].total_clicks = links[k].total_clicks + 1
    /\ (links'[k].total_clicks # links[k].total_clicks)
         <=> (links[k].deleted = FALSE /\ ResolvesNow(links[k].code))

\* C16: every step of the service satisfies C16_ClickStep.
C16_ClicksMonotonic == [][C16_ClickStep]_vars

\* One row has been resolved once while another row has not been.
C16_Witness ==
  /\ \E j, k \in DOMAIN links :
       links[j].total_clicks = 1 /\ links[k].total_clicks = 0
  /\ \E r \in Reqs : req[r].kind = "resolve" /\ Succeeded(r)

\* C17: in every step every row keeps its place in the table, its code,
\* its target_url and its created_at; no step removes a row or rewrites
\* these columns, whatever code (custom, generated or fallback) a later
\* shorten request inserts.
C17_RowStep ==
  \A k \in DOMAIN links :
    /\ k \in DOMAIN links'
    /\ links'[k].code = links[k].code
    /\ links'[k].target_url = links[k].target_url
    /\ links'[k].created_at = links[k].created_at

\* C17: every step of the service satisfies C17_RowStep.
C17_RowsImmutable == [][C17_RowStep]_vars

\* A shorten request found the generated code taken ten times and inserted
\* a fallback code for another URL; the earlier row is still in place.
C17_Witness ==
  \E j, k \in DOMAIN links :
    /\ j < k
    /\ Len(links[j].code) = NanoLen
    /\ Len(links[k].code) > NanoLen
    /\ SubSeq(links[k].code, 1, NanoLen) = links[j].code
    /\ links[j].target_url # links[k].target_url

\* C18: a resolve request whose query is answered either finds a live row
\* of its code, is answered with the redirect and is counted in that row
\* (total_clicks + 1, last_clicked set), or finds none, is answered 404 and
\* changes nothing; there is no third outcome wherever the delete of that
\* code falls among the resolves.  And a row with deleted = true keeps its
\* total_clicks and last_clicked in every step.
C18_RaceStep ==
  /\ \A r \in Reqs :
       ( /\ req[r].kind = "none"
         /\ req'[r].kind = "resolve"
         /\ faults' = faults )
       => LET live == { k \in RowsWithCode(req'[r].code) :
                          links[k].deleted = FALSE }
          IN  IF live # {}
              THEN /\ Succeeded(r)'
                   /\ \A k \in live :
                        /\ links'[k].total_clicks = links[k].total_clicks + 1
                        /\ links'[k].last_clicked # << >>
              ELSE /\ req'[r].status = "404"
                   /\ links' = links
  /\ \A k \in DOMAIN links :
       links[k].deleted
       => /\ links'[k].deleted
          /\ links'[k].total_clicks = links[k].total_clicks
          /\ links'[k].last_clicked = links[k].last_clicked

\* C18: every step of the service satisfies C18_RaceStep.
C18_DeleteResolveRace == [][C18_RaceStep]_vars

\* A resolve was counted before the delete of its code took effect; the
\* deleted row still shows that click.
C18_Witness ==
  \E k \in DOMAIN links, r, s \in Reqs :
    /\ links[k].deleted
    /\ links[k].total_clicks = 1
    /\ links[k].last_clicked # << >>
    /\ req[r].kind = "resolve" /\ req[r].code = links[k].code
    /\ Succeeded(r)
    /\ req[s].kind = "delete" /\ req[s].code = links[k].code
    /\ Succeeded(s)

\* Some value nano() may return is the code of a stored row.
SomeCandidateTaken == \E c \in NanoValues : RowsWithCode(c) # {}

\* A pass of the generation loop of request r, where `failed` tells what
\* makes a pass fail: either the pass takes as code a candidate that the
\* check found absent, with the counter untouched, or it fails, counts one
\* attempt and, at the tenth failed attempt only, takes a suffixed code.
LoopPass(r, failed) ==
  LET q  == req[r]
      qq == req'[r]
  IN  \/ /\ qq.pc = "insert"
         /\ qq.i = q.i
         /\ qq.code \in NanoValues
         /\ RowsWithCode(qq.code) = {}
         /\ faults' = faults
      \/ /\ failed
         /\ qq.i = q.i + 1
         /\ IF qq.i < MaxAttempts
            THEN qq.pc = "checkCandidate" /\ qq.code = << >>
            ELSE /\ qq.pc = "insert"
                 /\ \E v \in NanoValues, n \in 0..(SuffixRange - 1) :
                      qq.code = FallbackCode(v, n)

\* C19 as claimed: a pass of the loop fails only when its candidate is the
\* code of a stored row, so the fallback code is taken only after ten
\* candidates collided.
C19_CollisionStep ==
  \A r \in Reqs :
    (req[r].pc = "checkCandidate" /\ req'[r] # req[r])
    => LoopPass(r, faults' = faults /\ SomeCandidateTaken)

C19_AttemptStep ==
  \A r \in Reqs :
    (req[r].pc = "checkCandidate" /\ req'[r] # req[r])
    => LoopPass(r, faults' = faults + 1 \/ SomeCandidateTaken)

\* Outside the loop: a generated code about to be inserted is a suffixed
\* code exactly when the request counted ten failed passes.
C19_AtInsert ==
  \A r \in Reqs :
    (IsShorten(r) /\ ~req[r].custom /\ req[r].pc = "insert")
    => IF req[r].i = MaxAttempts
       THEN Len(req[r].code) > NanoLen
       ELSE req[r].i < MaxAttempts /\ req[r].code \in NanoValues

C20_StampIffClicked ==
  \A k \in DOMAIN links :
    /\ links[k].total_clicks >= 0
    /\ (links[k].last_clicked = << >>) <=> (links[k].total_clicks = 0)

\* A row that was resolved, with its time stamp, stands beside a row that
\* was never resolved, with none.
C20_Witness ==
  \E j, k \in DOMAIN links :
    /\ links[j].total_clicks = 0 /\ links[j].last_clicked = << >>
    /\ links[k].total_clicks > 0 /\ links[k].last_clicked # << >>

====
